---- MODULE Spec2Model ----
(***************************************************************************)
(* common_stream: a pull-based stream with pushback.                       *)
(*                                                                         *)
(*   Stream       (src/src/lib.rs)   wraps an iterator of Result<C, E>;    *)
(*                unread = push_front, next = pop_front or inner.next().   *)
(*   Transformed  (src/src/impl.rs)  wraps an iterator of raw items and a  *)
(*                transform; unread = push_back, next = pop_back or        *)
(*                transform(iter.next()).                                  *)
(*   never_error::Iter (src/src/never_error.rs) wraps every item in Ok.    *)
(*                                                                         *)
(* One underlying producer (script) feeds three objects that receive the   *)
(* same calls in the same order:                                           *)
(*   s = Stream::new(producer mapped through transform)                    *)
(*   t = Transformed::new(producer, transform)                             *)
(*   n = Stream::new(never_error::Iter::new(producer))                     *)
(* A VecDeque is a sequence, front first.                                  *)
(***************************************************************************)
EXTENDS Integers, Sequences, FiniteSets, TLC

\* ---------------------------------------------------------------- bounds
MaxScript == 2
MaxStore == 3
MaxBulk == 2
MaxStaged == 2

\* Raw items of the producer, and the chunks a caller may push back.
Raw == {0, 1, 2}
Chunk == {2, 3}

\* ---------------------------------------------------------------- values
\* Option<Result<C, E>> as returned by Iterator::next.
None == [tag |-> "None", val |-> 0]
Ok(x) == [tag |-> "Ok", val |-> x]
Err(e) == [tag |-> "Err", val |-> e]
\* The () returned by unread / unread_from_chunks.
Unit == [tag |-> "Unit", val |-> 0]

\* Option<T> as returned by the underlying producer.
NoItem == [some |-> FALSE, item |-> 0]
Item(r) == [some |-> TRUE, item |-> r]
Slot == {NoItem} \cup {Item(r) : r \in Raw}

SeqsUpTo(S, k) == UNION {[1..m -> S] : m \in 0..k}

RECURSIVE Reverse(_)
Reverse(q) == IF q = <<>> THEN <<>> ELSE Append(Reverse(Tail(q)), Head(q))

Last(q) == q[Len(q)]
Front(q) == SubSeq(q, 1, Len(q) - 1)

VARIABLES
    script,   \* what the underlying producer answers, call by call
    s,        \* Stream over the decoded producer
    t,        \* Transformed over the producer
    n,        \* Stream over never_error::Iter
    op,       \* the last call made on the three objects
    out,      \* what that call returned, per object
    probe,    \* per object: what the last call did to producer and transform
    tally,    \* per object: counts and logs over the whole run
    mark,     \* the last pushback and the pulls made since
    ledger    \* a run that ends in a drain: what was pushed, what was returned

vars == <<script, s, t, n, op, out, probe, tally, mark, ledger>>

\* ------------------------------------------------------------- producer
\* The underlying iterator: it answers script[pos] on its pos-th call and
\* None on every call after the script has run out.  Iterator::next may
\* answer Some again after None; a script with NoItem in the middle is such
\* a producer.
producer_next(pos) ==
    IF pos <= Len(script)
    THEN [pos |-> pos + 1, item |-> script[pos]]
    ELSE [pos |-> pos, item |-> NoItem]

\* The transform function F: FnMut(T) -> Result<U, E> (tests::tranform decodes
\* a raw item or fails): raw item 0 does not decode, raw item r > 0 decodes
\* to the token r + 1.
transform(r) == IF r = 0 THEN Err(r) ELSE Ok(r + 1)

\* An iterator of Result<C, E> built from the producer, as char::decode_utf16
\* in the tests of lib.rs: each raw item is decoded when it is pulled.
decode_next(pos) ==
    LET r == producer_next(pos) IN
    IF r.item.some
    THEN [pos |-> r.pos, ret |-> transform(r.item.item), asked |-> "some", called |-> 1]
    ELSE [pos |-> r.pos, ret |-> None, asked |-> "none", called |-> 0]

\* Faulty variant: the adapter rejects the raw item the decoder rejects.
Iter_next_checked(pos) ==
    LET r == producer_next(pos) IN
    IF r.item.some
    THEN [pos |-> r.pos,
          ret |-> IF r.item.item = 0 THEN Err(r.item.item) ELSE Ok(r.item.item),
          asked |-> "some", called |-> 0]
    ELSE [pos |-> r.pos, ret |-> None, asked |-> "none", called |-> 0]

\* never_error::Iter::next: self.0.next().map(Ok)
Iter_next(pos) ==
    LET r == producer_next(pos) IN
    IF r.item.some
    THEN [pos |-> r.pos, ret |-> Ok(r.item.item), asked |-> "some", called |-> 0]
    ELSE [pos |-> r.pos, ret |-> None, asked |-> "none", called |-> 0]

\* self.inner.next() of a Stream<I, C, E>, for the two I of the model.
inner_next(inner) ==
    LET r == IF inner.kind = "never_error" THEN Iter_next(inner.pos)
             ELSE decode_next(inner.pos)
    IN [inner |-> [inner EXCEPT !.pos = r.pos], ret |-> r.ret,
        asked |-> r.asked, called |-> r.called]

\* --------------------------------------------------------------- Stream
Stream_new(inner) == [inner |-> inner, backing_store |-> <<>>]

\* Faulty variant: the chunk goes to the back of the deque, the end next does not pop.
Stream_unread_back(self, chunk) ==
    [self EXCEPT !.backing_store = Append(@, chunk)]

\* self.backing_store.push_front(chunk)
Stream_unread(self, chunk) ==
    [self EXCEPT !.backing_store = <<chunk>> \o @]

\* Faulty variant: the provided method walks iter from its last chunk to its first.
RECURSIVE unread_from_chunks_rev(_, _)
unread_from_chunks_rev(self, iter) ==
    IF iter = <<>> THEN self
    ELSE unread_from_chunks_rev(Stream_unread(self, Last(iter)), Front(iter))

\* UnRead::unread_from_chunks, the provided method: for c in iter { self.unread(c) }
RECURSIVE unread_from_chunks(_, _)
unread_from_chunks(self, iter) ==
    IF iter = <<>> THEN self
    ELSE unread_from_chunks(Stream_unread(self, Head(iter)), Tail(iter))

\* Faulty variant: the producer is asked first and the buffer only when it has nothing.
Stream_next_inner_first(self) ==
    LET r == inner_next(self.inner) IN
    IF r.ret # None \/ self.backing_store = <<>>
    THEN [self |-> [self EXCEPT !.inner = r.inner],
          ret |-> r.ret, asked |-> r.asked, called |-> r.called]
    ELSE [self |-> [self EXCEPT !.inner = r.inner, !.backing_store = Tail(@)],
          ret |-> Ok(Head(self.backing_store)), asked |-> r.asked,
          called |-> r.called]

\* Faulty variant: a stream that remembers the end, next returns None once the
\* producer has run out, whatever the buffer holds.
Stream_next_fused(self) ==
    IF self.inner.pos > Len(script)
    THEN [self |-> self, ret |-> None, asked |-> "no", called |-> 0]
    ELSE IF self.backing_store # <<>>
    THEN [self |-> [self EXCEPT !.backing_store = Tail(@)],
          ret |-> Ok(Head(self.backing_store)), asked |-> "no", called |-> 0]
    ELSE LET r == inner_next(self.inner) IN
         [self |-> [self EXCEPT !.inner = r.inner],
          ret |-> r.ret, asked |-> r.asked, called |-> r.called]

\* Faulty variant: front() in place of pop_front(), the token stays in the buffer.
Stream_next_peek(self) ==
    IF self.backing_store # <<>>
    THEN [self |-> self,
          ret |-> Ok(Head(self.backing_store)), asked |-> "no", called |-> 0]
    ELSE LET r == inner_next(self.inner) IN
         [self |-> [self EXCEPT !.inner = r.inner],
          ret |-> r.ret, asked |-> r.asked, called |-> r.called]

\* Faulty variant: an item the producer failed on is kept in the buffer for the next
\* pull.
Stream_next_cache_err(self) ==
    IF self.backing_store # <<>>
    THEN [self |-> [self EXCEPT !.backing_store = Tail(@)],
          ret |-> Ok(Head(self.backing_store)), asked |-> "no", called |-> 0]
    ELSE LET r == inner_next(self.inner) IN
         [self |-> [self EXCEPT !.inner = r.inner,
                                !.backing_store = IF r.ret.tag = "Err"
                                                  THEN <<r.ret.val>> ELSE <<>>],
          ret |-> r.ret, asked |-> r.asked, called |-> r.called]

\* self.backing_store.pop_front().map_or_else(|| self.inner.next(), |b| Some(Ok(b)))
Stream_next(self) ==
    IF self.backing_store # <<>>
    THEN [self |-> [self EXCEPT !.backing_store = Tail(@)],
          ret |-> Ok(Head(self.backing_store)), asked |-> "no", called |-> 0]
    ELSE LET r == inner_next(self.inner) IN
         [self |-> [self EXCEPT !.inner = r.inner],
          ret |-> r.ret, asked |-> r.asked, called |-> r.called]

\* ---------------------------------------------------------- Transformed
Transformed_new(iter) == [iter |-> iter, backing_store |-> <<>>]

\* Faulty variant: the constructor stores the seed last element first.
Transformed_with_backing_store_rev(iter, backing_store) ==
    [iter |-> iter, backing_store |-> Reverse(backing_store)]

\* Faulty variant: the constructor takes a first raw item from the producer.
Transformed_with_backing_store_eager(iter, backing_store) ==
    [iter |-> producer_next(iter).pos, backing_store |-> backing_store]

\* Transformed::with_backing_store: backing_store: VecDeque::from_iter(backing_store)
Transformed_with_backing_store(iter, backing_store) ==
    [iter |-> iter, backing_store |-> backing_store]

\* Faulty variant: the token goes to the front of the deque, the end next does not pop.
Transformed_unread_front(self, token) ==
    [self EXCEPT !.backing_store = <<token>> \o @]

\* self.backing_store.push_back(token)
Transformed_unread(self, token) ==
    [self EXCEPT !.backing_store = Append(@, token)]

\* Faulty variant: the tokens are appended last first, so that next hands them back in
\* the order of iter.
Transformed_unread_from_tokens_in_order(self, iter) ==
    [self EXCEPT !.backing_store = @ \o Reverse(iter)]

\* Faulty variant: only the first token of iter is stored.
Transformed_unread_from_tokens_once(self, iter) ==
    [self EXCEPT !.backing_store = IF iter = <<>> THEN @ ELSE Append(@, Head(iter))]

\* self.backing_store.extend(iter)
Transformed_unread_from_tokens(self, iter) ==
    [self EXCEPT !.backing_store = @ \o iter]

\* Faulty variant: pop_front() in place of pop_back().
Transformed_next_pop_front(self) ==
    IF self.backing_store = <<>>
    THEN LET r == producer_next(self.iter) IN
         IF r.item.some
         THEN [self |-> [self EXCEPT !.iter = r.pos],
               ret |-> transform(r.item.item), asked |-> "some", called |-> 1]
         ELSE [self |-> [self EXCEPT !.iter = r.pos],
               ret |-> None, asked |-> "none", called |-> 0]
    ELSE [self |-> [self EXCEPT !.backing_store = Tail(@)],
          ret |-> Ok(Head(self.backing_store)), asked |-> "no", called |-> 0]

\* Faulty variant: a raw item the transform rejects is dropped, next returns None for it.
Transformed_next_drop_err(self) ==
    IF self.backing_store = <<>>
    THEN LET r == producer_next(self.iter) IN
         IF r.item.some
         THEN [self |-> [self EXCEPT !.iter = r.pos],
               ret |-> IF transform(r.item.item).tag = "Err" THEN None
                       ELSE transform(r.item.item),
               asked |-> "some", called |-> 1]
         ELSE [self |-> [self EXCEPT !.iter = r.pos],
               ret |-> None, asked |-> "none", called |-> 0]
    ELSE [self |-> [self EXCEPT !.backing_store = Front(@)],
          ret |-> Ok(Last(self.backing_store)), asked |-> "no", called |-> 0]

\* Faulty variant: a raw item the transform rejects is kept and decoded again by the
\* next pull.
Transformed_next_retry(self) ==
    IF self.backing_store = <<>>
    THEN LET r == producer_next(self.iter) IN
         IF r.item.some
         THEN [self |-> IF transform(r.item.item).tag = "Err" THEN self
                        ELSE [self EXCEPT !.iter = r.pos],
               ret |-> transform(r.item.item), asked |-> "some", called |-> 1]
         ELSE [self |-> [self EXCEPT !.iter = r.pos],
               ret |-> None, asked |-> "none", called |-> 0]
    ELSE [self |-> [self EXCEPT !.backing_store = Front(@)],
          ret |-> Ok(Last(self.backing_store)), asked |-> "no", called |-> 0]

\* Faulty variant: once the producer has answered None, next with an empty buffer
\* returns None without asking it again.
Transformed_next_fused(self) ==
    IF self.backing_store = <<>>
    THEN IF \E i \in 1..(self.iter - 1) : ~script[i].some
         THEN [self |-> self, ret |-> None, asked |-> "no", called |-> 0]
         ELSE LET r == producer_next(self.iter) IN
              IF r.item.some
              THEN [self |-> [self EXCEPT !.iter = r.pos],
                    ret |-> transform(r.item.item), asked |-> "some", called |-> 1]
              ELSE [self |-> [self EXCEPT !.iter = r.pos],
                    ret |-> None, asked |-> "none", called |-> 0]
    ELSE [self |-> [self EXCEPT !.backing_store = Front(@)],
          ret |-> Ok(Last(self.backing_store)), asked |-> "no", called |-> 0]

\* if is_empty { self.iter.next().map(|it| (self.transform)(it)) }
\* else { self.backing_store.pop_back().map(Ok) }
Transformed_next(self) ==
    IF self.backing_store = <<>>
    THEN LET r == producer_next(self.iter) IN
         IF r.item.some
         THEN [self |-> [self EXCEPT !.iter = r.pos],
               ret |-> transform(r.item.item), asked |-> "some", called |-> 1]
         ELSE [self |-> [self EXCEPT !.iter = r.pos],
               ret |-> None, asked |-> "none", called |-> 0]
    ELSE [self |-> [self EXCEPT !.backing_store = Front(@)],
          ret |-> Ok(Last(self.backing_store)), asked |-> "no", called |-> 0]

\* ------------------------------------------------------------ observers
\* The order in which a backing store hands its tokens to next: Stream pops
\* the front, Transformed pops the back.
Stream_delivery(self) == self.backing_store
Transformed_delivery(self) == Reverse(self.backing_store)

Min(a, b) == IF a < b THEN a ELSE b
KeepLast(q, k) == IF Len(q) <= k THEN q ELSE SubSeq(q, Len(q) - k + 1, Len(q))
IsSuffix(xs, q) == Len(xs) <= Len(q) /\ KeepLast(q, Len(xs)) = xs

\* Counters stop at Cap: no script is longer than MaxScript.
Cap == MaxScript + 1

\* What one call did: the object before it, whether next found a token in the
\* buffer, what the producer answered and whether the transform was called.
Probe(self0, r) ==
    [was |-> self0, served |-> self0.backing_store # <<>>,
     asked |-> r.asked, called |-> r.called]
Quiet(self0) ==
    [was |-> self0, served |-> FALSE, asked |-> "no", called |-> 0]

Tally0 ==
    [calls |-> 0, taken |-> 0, errs |-> 0, pushed |-> FALSE,
     seen |-> <<>>, run |-> <<>>, ended |-> FALSE, was_ended |-> FALSE]

\* After a pull that returned r.
TallyPull(old, r) ==
    [calls |-> Min(old.calls + r.called, Cap),
     taken |-> Min(old.taken + (IF r.asked = "some" THEN 1 ELSE 0), Cap),
     errs |-> Min(old.errs + (IF r.ret.tag = "Err" THEN 1 ELSE 0), Cap),
     pushed |-> old.pushed,
     seen |-> IF ~old.pushed /\ Len(old.seen) <= Len(script)
              THEN Append(old.seen, r.ret) ELSE old.seen,
     run |-> IF r.ret.tag = "Ok" THEN KeepLast(Append(old.run, r.ret.val), MaxBulk)
             ELSE <<>>,
     ended |-> old.ended \/ r.asked = "none",
     was_ended |-> old.ended]

\* After a pushback.
TallyPush(old) ==
    [old EXCEPT !.pushed = TRUE, !.seen = <<>>, !.run = <<>>, !.ended = FALSE,
                !.was_ended = FALSE]

NoMark ==
    [kind |-> "none", xs |-> <<>>, k |-> 0,
     s0 |-> Stream_new([kind |-> "decode", pos |-> 1]),
     t0 |-> Transformed_new(1),
     s_pulled |-> FALSE, t_pulled |-> FALSE,
     s_at_end |-> FALSE, t_at_end |-> FALSE]

\* The pushback of xs just made on s0 and t0.
NewMark(kind, xs) ==
    [kind |-> kind, xs |-> xs, k |-> 0, s0 |-> s, t0 |-> t,
     s_pulled |-> IsSuffix(xs, tally.s.run),
     t_pulled |-> IsSuffix(xs, tally.t.run),
     s_at_end |-> op.name = "next" /\ out.s = None,
     t_at_end |-> op.name = "next" /\ out.t = None]

\* One more pull since the pushback.  The mark is kept while xs is re-read,
\* and for one pull more when xs were pulled tokens or the stream was at its
\* end.
MarkPull ==
    IF mark.kind = "none" \/ mark.k > Len(mark.xs) THEN NoMark
    ELSE IF /\ mark.k = Len(mark.xs)
            /\ ~(mark.s_pulled \/ mark.t_pulled \/ mark.s_at_end \/ mark.t_at_end)
    THEN NoMark
    ELSE [mark EXCEPT !.k = @ + 1]

\* The ledger of a run: the tokens handed to the objects so far (the seed of
\* the construction first), the pulls made while nothing was pushed back since
\* the construction, whether the caller has begun to drain, and per object the
\* values its pulls returned and the pulls that found its buffer empty.
CapGot == MaxScript + MaxStaged + 1
Over == MaxStaged + 2

Ledger0 ==
    [draining |-> FALSE, put |-> <<>>, fresh |-> 0,
     s |-> [got |-> <<>>, polls |-> 0],
     t |-> [got |-> <<>>, polls |-> 0]]

LedgerGot(old, self0, r) ==
    [got |-> IF r.ret # None /\ Len(old.got) < CapGot
             THEN Append(old.got, r.ret) ELSE old.got,
     polls |-> IF self0.backing_store = <<>> THEN Min(old.polls + 1, Cap)
               ELSE old.polls]

LedgerPull(d) ==
    [draining |-> ledger.draining \/ d,
     put |-> ledger.put,
     fresh |-> Min(ledger.fresh + 1, Over),
     s |-> LedgerGot(ledger.s, s, Stream_next(s)),
     t |-> LedgerGot(ledger.t, t, Transformed_next(t))]

LedgerPush(xs) == [ledger EXCEPT !.put = @ \o xs, !.fresh = Over]

\* ------------------------------------------------------------- the calls
Init ==
    /\ script \in SeqsUpTo(Slot, MaxScript)
    /\ s = Stream_new([kind |-> "decode", pos |-> 1])
    /\ t = Transformed_new(1)
    /\ n = Stream_new([kind |-> "never_error", pos |-> 1])
    /\ op = [name |-> "new", arg |-> <<>>]
    /\ out = [s |-> Unit, t |-> Unit, n |-> Unit]
    /\ probe = [s |-> Quiet(s), t |-> Quiet(t), n |-> Quiet(n)]
    /\ tally = [s |-> Tally0, t |-> Tally0, n |-> Tally0]
    /\ mark = NoMark
    /\ ledger = Ledger0

\* next() on the three objects.
Call_next ==
    LET rs == Stream_next(s)
        rt == Transformed_next(t)
        rn == Stream_next(n)
    IN /\ s' = rs.self
       /\ t' = rt.self
       /\ n' = rn.self
       /\ op' = [name |-> "next", arg |-> <<>>]
       /\ out' = [s |-> rs.ret, t |-> rt.ret, n |-> rn.ret]
       /\ probe' = [s |-> Probe(s, rs), t |-> Probe(t, rt), n |-> Probe(n, rn)]
       /\ tally' = [s |-> TallyPull(tally.s, rs),
                    t |-> TallyPull(tally.t, rt),
                    n |-> TallyPull(tally.n, rn)]
       /\ mark' = MarkPull
       /\ UNCHANGED script

Room(k) ==
    /\ Len(s.backing_store) + k <= MaxStore
    /\ Len(t.backing_store) + k <= MaxStore
    /\ Len(n.backing_store) + k <= MaxStore

Pushed(name, xs, s1, t1, n1) ==
    /\ s' = s1
    /\ t' = t1
    /\ n' = n1
    /\ op' = [name |-> name, arg |-> xs]
    /\ out' = [s |-> Unit, t |-> Unit, n |-> Unit]
    /\ probe' = [s |-> Quiet(s), t |-> Quiet(t), n |-> Quiet(n)]
    /\ tally' = [s |-> TallyPush(tally.s), t |-> TallyPush(tally.t),
                 n |-> TallyPush(tally.n)]
    /\ mark' = NewMark(name, xs)
    /\ UNCHANGED script

\* unread(x) on the three objects.
Call_unread(x) ==
    /\ Room(1)
    /\ Pushed("unread", <<x>>, Stream_unread(s, x), Transformed_unread(t, x),
              Stream_unread(n, x))

\* The bulk pushback of xs on the three objects.
Call_unread_from_chunks(xs) ==
    /\ Room(Len(xs))
    /\ Pushed("unread_from_chunks", xs, unread_from_chunks(s, xs),
              Transformed_unread_from_tokens(t, xs), unread_from_chunks(n, xs))

Next ==
    \/ Call_next /\ UNCHANGED ledger
    \/ \E x \in Chunk : Call_unread(x) /\ UNCHANGED ledger
    \/ \E xs \in SeqsUpTo(Chunk, MaxBulk) :
          Call_unread_from_chunks(xs) /\ UNCHANGED ledger

Spec == Init /\ [][Next]_vars

\* ---------------------------------------------- seeded construction, drain
\* The objects as constructed over a seed: t by Transformed::with_backing_store,
\* s and n (Stream has no seeded constructor) by new and one bulk pushback.
InitSeeded ==
    \/ Init
    \/ \E seed \in SeqsUpTo(Chunk, MaxStaged) :
        /\ script \in SeqsUpTo(Slot, MaxScript)
        /\ s = unread_from_chunks(Stream_new([kind |-> "decode", pos |-> 1]), seed)
        /\ t = Transformed_with_backing_store(1, seed)
        /\ n = unread_from_chunks(Stream_new([kind |-> "never_error", pos |-> 1]), seed)
        /\ op = [name |-> "with_backing_store", arg |-> seed]
        /\ out = [s |-> Unit, t |-> Unit, n |-> Unit]
        /\ probe = [s |-> Quiet(Stream_new([kind |-> "decode", pos |-> 1])),
                    t |-> Quiet(Transformed_new(1)),
                    n |-> Quiet(Stream_new([kind |-> "never_error", pos |-> 1]))]
        /\ tally = [s |-> TallyPush(Tally0), t |-> TallyPush(Tally0),
                    n |-> TallyPush(Tally0)]
        /\ mark = NoMark
        /\ ledger = [Ledger0 EXCEPT !.put = seed]

\* One next() while the caller still pushes back.
Seeded_next ==
    /\ ~ledger.draining
    /\ Call_next
    /\ ledger' = LedgerPull(FALSE)

\* One next() made by a fold over the stream (s.by_ref().map(..).fold(..) in
\* tests::unread_all): from its first pull on the caller only pulls.
Fold_next ==
    /\ Call_next
    /\ ledger' = LedgerPull(TRUE)

Seeded_unread(x) ==
    /\ ~ledger.draining
    /\ Len(ledger.put) + 1 <= MaxStaged
    /\ Call_unread(x)
    /\ ledger' = LedgerPush(<<x>>)

Seeded_unread_from_chunks(xs) ==
    /\ ~ledger.draining
    /\ Len(ledger.put) + Len(xs) <= MaxStaged
    /\ Call_unread_from_chunks(xs)
    /\ ledger' = LedgerPush(xs)

NextSeeded ==
    \/ Seeded_next
    \/ Fold_next
    \/ \E x \in Chunk : Seeded_unread(x)
    \/ \E xs \in SeqsUpTo(Chunk, MaxBulk) : Seeded_unread_from_chunks(xs)

\* Iterator::fold calls next until it returns None.
SpecSeeded == InitSeeded /\ [][NextSeeded]_vars /\ WF_vars(Fold_next)

\* ------------------------------------------------------- shared notions
\* What the producer answers to the call made at position pos, and what a
\* stream with an empty buffer returns for that answer.
Answer(pos) == producer_next(pos).item
Lift(slot) == IF slot.some THEN transform(slot.item) ELSE None

\* The producer keeps answering None once it has answered None.
StaysExhausted ==
    \A i \in 1..Len(script) : \A j \in i..Len(script) :
        ~script[i].some => ~script[j].some

\* The k-th token re-read after a pushback of xs: the last of xs comes first.
Replayed(xs, k) == xs[Len(xs) - k + 1]

\* The number of raw items among the first k answers of the producer that the
\* transform rejects.
Rejected(k) ==
    Cardinality({i \in 1..Min(k, Len(script)) :
                    script[i].some /\ transform(script[i].item).tag = "Err"})

\* ------------------------------------------------------------------ C1
\* The pulls made since a bulk pushback of xs = [t1, ..., tn], where xs are the
\* tokens of the n pulls made just before it: the k-th returns ret.
C1_Replay(pulled, ret) ==
    (mark.kind = "unread_from_chunks" /\ pulled /\ mark.k >= 1 /\ mark.k <= Len(mark.xs))
        => ret = Ok(Replayed(mark.xs, mark.k))

\* The pull after the n: the producer's next raw item.
C1_ThenProducer(pulled, pos0, ret) ==
    (mark.kind = "unread_from_chunks" /\ pulled /\ mark.k = Len(mark.xs) + 1)
        => ret = Lift(Answer(pos0))

\* The pull after the n: what was due before the pushback, the token staged
\* next if there was one and the producer's next raw item if there was none.
C1_ThenAsBefore(pulled, delivery0, pos0, ret) ==
    (mark.kind = "unread_from_chunks" /\ pulled /\ mark.k = Len(mark.xs) + 1)
        => ret = IF delivery0 = <<>> THEN Lift(Answer(pos0)) ELSE Ok(Head(delivery0))

\* C1 as stated: tokens t1..tn obtained by n consecutive pulls and pushed back
\* in one bulk call are re-read as tn, ..., t1 by the next n pulls, and the
\* pull after those n continues with the producer's next raw item.
C1_AsStated ==
    /\ C1_Replay(mark.s_pulled, out.s)
    /\ C1_Replay(mark.t_pulled, out.t)
    /\ C1_ThenProducer(mark.s_pulled, mark.s0.inner.pos, out.s)
    /\ C1_ThenProducer(mark.t_pulled, mark.t0.iter, out.t)

\* C1 amended: tokens t1..tn obtained by n consecutive pulls and pushed back in
\* one bulk call are re-read as tn, ..., t1 by the next n pulls; the pull after
\* those n continues with the producer's next raw item when the buffer was
\* empty at the pushback, and with the token that was staged next otherwise.
C1_Reversal ==
    /\ C1_Replay(mark.s_pulled, out.s)
    /\ C1_Replay(mark.t_pulled, out.t)
    /\ C1_ThenAsBefore(mark.s_pulled, Stream_delivery(mark.s0),
                       mark.s0.inner.pos, out.s)
    /\ C1_ThenAsBefore(mark.t_pulled, Transformed_delivery(mark.t0),
                       mark.t0.iter, out.t)

\* Two different tokens were pulled, pushed back in one call on an empty
\* buffer and re-read, and one more pull was made.
C1_Witness ==
    /\ mark.kind = "unread_from_chunks" /\ mark.s_pulled /\ mark.t_pulled
    /\ Len(mark.xs) = 2 /\ mark.xs[1] # mark.xs[2]
    /\ mark.s0.backing_store = <<>> /\ mark.t0.backing_store = <<>>
    /\ mark.k = 3
    /\ op.name = "next"

\* ------------------------------------------------------------------ C2
\* The pull made right after unread(x), where x is the token the pull before
\* the unread returned.
C2_Case(pulled) == mark.kind = "unread" /\ pulled /\ mark.k = 1

\* C2: for a token x returned as Ok(x) by a pull, unread(x) and then a pull
\* yields Ok(x) again, the producer is not advanced and not asked, and the
\* stream is back in the state it had before the unread, so that the pulls
\* after it return what they would have returned without the round trip.
C2_RoundTrip ==
    /\ C2_Case(mark.s_pulled) =>
        /\ out.s = Ok(mark.xs[1])
        /\ s = mark.s0
        /\ s.inner.pos = mark.s0.inner.pos
        /\ probe.s.asked = "no"
    /\ C2_Case(mark.t_pulled) =>
        /\ out.t = Ok(mark.xs[1])
        /\ t = mark.t0
        /\ t.iter = mark.t0.iter
        /\ probe.t.asked = "no"

\* A token was pulled, unread and pulled again while other tokens were staged
\* and the producer had raw items left.
C2_Witness ==
    /\ C2_Case(mark.s_pulled) /\ C2_Case(mark.t_pulled)
    /\ op.name = "next"
    /\ s.backing_store # <<>> /\ t.backing_store # <<>>
    /\ s.inner.pos <= Len(script)

\* ------------------------------------------------------------------ C3
\* C3, as documented on UnRead::unread_from_chunks: after unread_from_chunks(iter)
\* the values read next are the chunks iter returned, as many as it returned
\* and in the order it returned them, the first chunk first.
C3_DocumentedOrder ==
    (mark.kind = "unread_from_chunks" /\ mark.k >= 1 /\ mark.k <= Len(mark.xs))
        => out.s = Ok(mark.xs[mark.k])

\* ------------------------------------------------------------------ C4
\* A pull that found a token in the buffer: it returned the token staged
\* next, removed that token and nothing else, did not call the transform and
\* did not ask or advance the producer.
C4_Served(pr, delivery0, delivery, pos0, pos, ret) ==
    (op.name = "next" /\ pr.served) =>
        /\ ret = Ok(Head(delivery0))
        /\ delivery = Tail(delivery0)
        /\ pr.called = 0
        /\ pr.asked = "no"
        /\ pos = pos0

\* C4: in every reachable state where the pushback buffer is non-empty at the
\* start of a pull, that pull returns the buffer's next token wrapped in Ok,
\* removes exactly that token, does not invoke the transform and does not
\* advance the producer.
C4_BufferFirst ==
    /\ C4_Served(probe.s, Stream_delivery(probe.s.was), Stream_delivery(s),
                 probe.s.was.inner.pos, s.inner.pos, out.s)
    /\ C4_Served(probe.t, Transformed_delivery(probe.t.was),
                 Transformed_delivery(t), probe.t.was.iter, t.iter, out.t)

\* A pull was served from a buffer of two different tokens while the producer
\* still had a raw item to give.
C4_Witness ==
    /\ op.name = "next" /\ probe.s.served /\ probe.t.served
    /\ Len(probe.s.was.backing_store) = 2
    /\ probe.s.was.backing_store[1] # probe.s.was.backing_store[2]
    /\ Answer(s.inner.pos).some

\* ------------------------------------------------------------------ C5
\* The results of the pulls made before any pushback are the producer's
\* answers through the transform, in the producer's order; as long as nothing
\* was pushed back every pull asked the producer once, and the transform was
\* called once for every raw item taken.
C5_Plain(tl, pos) ==
    /\ \A i \in 1..Len(tl.seen) : tl.seen[i] = Lift(Answer(i))
    /\ ~tl.pushed =>
        /\ pos = Min(Len(tl.seen), Len(script)) + 1
        /\ tl.taken = Cardinality({i \in 1..(pos - 1) : script[i].some})
        /\ tl.calls = tl.taken

\* C5: without any pushback a stream over a producer yielding r1, ..., rn with
\* transform f returns f(r1), ..., f(rn) in producer order, each result
\* unmodified, one raw item and one transform call per pull, then exhaustion.
C5_InProducerOrder ==
    /\ C5_Plain(tally.s, s.inner.pos)
    /\ C5_Plain(tally.t, t.iter)

\* Two different raw items, one of them rejected by the transform, were pulled
\* with no pushback, and the pull after them returned exhaustion.
C5_Witness ==
    /\ Len(script) = 2 /\ script[1].some /\ script[2].some
    /\ script[1] # script[2]
    /\ \E i \in 1..2 : transform(script[i].item).tag = "Err"
    /\ ~tally.s.pushed /\ ~tally.t.pushed
    /\ Len(tally.s.seen) = 3 /\ Len(tally.t.seen) = 3
    /\ out.s = None /\ out.t = None

\* ------------------------------------------------------------------ C6
\* A pull that found the buffer empty returns the producer's answer through
\* the transform; when that is Err(e) for raw item r the producer has moved by
\* exactly one item and the buffer is still empty; and the stream has returned
\* as many Err as the producer has given raw items that the transform rejects.
C6_Relayed(pr, tl, store, pos0, pos, ret) ==
    /\ (op.name = "next" /\ ~pr.served) => ret = Lift(Answer(pos0))
    /\ (op.name = "next" /\ ~pr.served /\ Lift(Answer(pos0)).tag = "Err") =>
        /\ ret = Err(Answer(pos0).item)
        /\ pr.asked = "some"
        /\ pos = pos0 + 1
        /\ store = <<>>
    /\ tl.errs = Rejected(pos - 1)

\* C6: for a raw item r with transform(r) = Err(e), the pull that consumes r
\* returns Err(e) exactly once: it advances the producer by exactly one item
\* and leaves the buffer empty, the error is not retried, skipped or cached,
\* and the following pull processes the raw item after r.
C6_ErrorRelay ==
    /\ C6_Relayed(probe.s, tally.s, s.backing_store, probe.s.was.inner.pos,
                  s.inner.pos, out.s)
    /\ C6_Relayed(probe.t, tally.t, t.backing_store, probe.t.was.iter,
                  t.iter, out.t)

\* A pull returned the Err of a raw item, and then the next pull returned the
\* decoded raw item that follows it.
C6_Witness ==
    /\ op.name = "next"
    /\ ~probe.s.served /\ ~probe.t.served
    /\ probe.s.was.inner.pos = 2 /\ probe.t.was.iter = 2
    /\ Lift(Answer(1)).tag = "Err"
    /\ tally.s.errs = 1 /\ tally.t.errs = 1
    /\ out.s.tag = "Ok" /\ out.t.tag = "Ok"
    /\ ~tally.s.pushed

\* ------------------------------------------------------------------ C7
\* A pull made after the producer signaled exhaustion to a pull, with no
\* pushback in between.
C7_Terminal(tl, ret) == (op.name = "next" /\ tl.was_ended) => ret = None

\* C7 as stated: once the underlying producer has signaled exhaustion to a
\* pull, every subsequent pull with no intervening pushback also returns
\* exhaustion.
C7_AsStated ==
    /\ C7_Terminal(tally.s, out.s)
    /\ C7_Terminal(tally.t, out.t)

\* C7 amended: for a producer that keeps answering exhaustion once it has
\* answered it, once the producer has signaled exhaustion to a pull, every
\* subsequent pull with no intervening pushback also returns exhaustion.
C7_TerminalWhenProducerIs == StaysExhausted => C7_AsStated

\* A producer of one raw item that stays exhausted was pulled again after it
\* had signaled exhaustion.
C7_Witness ==
    /\ StaysExhausted /\ Len(script) >= 1 /\ script[1].some
    /\ op.name = "next" /\ tally.s.was_ended /\ tally.t.was_ended
    /\ out.s = None /\ out.t = None

\* ------------------------------------------------------------------ C8
\* C8: never_error::Iter yields Ok(i1), ..., Ok(in) for the items i1, ..., in
\* of the wrapped producer, in that order, and then exhaustion; no pull of the
\* adapter returns Err, and a Stream built on it never returns Err whatever
\* pulls and pushbacks are made.
C8_NeverErr ==
    /\ out.n.tag # "Err"
    /\ tally.n.errs = 0
    /\ \A i \in 1..Len(tally.n.seen) :
        tally.n.seen[i] = IF Answer(i).some THEN Ok(Answer(i).item) ELSE None
    /\ ~tally.n.pushed => n.inner.pos = Min(Len(tally.n.seen), Len(script)) + 1
    /\ \A pos \in 1..(Len(script) + 1) : Iter_next(pos).ret.tag # "Err"

\* After a pushback, the adapted stream returned as Ok the raw item for which
\* the decoding stream returned Err.
C8_Witness ==
    /\ op.name = "next" /\ tally.n.pushed
    /\ out.n.tag = "Ok" /\ out.s = Err(out.n.val)

\* ------------------------------------------------------------------ C9
\* C9: whatever the buffer already holds, the pull right after unread(x)
\* returns Ok(x), and after that pull the buffer holds the tokens it held
\* before unread(x), in the same delivery order.
C9_StagedAhead ==
    (mark.kind = "unread" /\ mark.k = 1) =>
        /\ out.s = Ok(mark.xs[1])
        /\ Stream_delivery(s) = Stream_delivery(mark.s0)
        /\ out.t = Ok(mark.xs[1])
        /\ Transformed_delivery(t) = Transformed_delivery(mark.t0)

\* unread(x) was called on a buffer that held two tokens, the next of them
\* other than x, and a pull followed.
C9_Witness ==
    /\ mark.kind = "unread" /\ mark.k = 1 /\ op.name = "next"
    /\ Len(mark.s0.backing_store) = 2
    /\ Head(Stream_delivery(mark.s0)) # mark.xs[1]
    /\ Head(Transformed_delivery(mark.t0)) # mark.xs[1]

\* ----------------------------------------------------------------- C10
\* The pulls made since a pushback of xs (one token by unread, or a bulk)
\* that was made right after a pull returned exhaustion: the first Len(xs)
\* return the tokens of xs.
C10_Delivered(at_end, ret) ==
    (mark.kind # "none" /\ at_end /\ mark.k >= 1 /\ mark.k <= Len(mark.xs))
        => ret = Ok(Replayed(mark.xs, mark.k))

\* The pull after them returns exhaustion again.
C10_ThenNone(at_end, ret) ==
    (mark.kind # "none" /\ at_end /\ mark.k = Len(mark.xs) + 1) => ret = None

\* The pull after them returns what the producer answers to its next call.
C10_ThenProducer(at_end, pos0, ret) ==
    (mark.kind # "none" /\ at_end /\ mark.k = Len(mark.xs) + 1)
        => ret = Lift(Answer(pos0))

\* C10 as stated: after a pull has returned exhaustion, unread(x), for any
\* token x, followed by a pull returns Ok(x), and the pull after that returns
\* exhaustion again; a bulk pushback has all its tokens delivered before
\* exhaustion is signaled again.
C10_AsStated ==
    /\ C10_Delivered(mark.s_at_end, out.s)
    /\ C10_Delivered(mark.t_at_end, out.t)
    /\ C10_ThenNone(mark.s_at_end, out.s)
    /\ C10_ThenNone(mark.t_at_end, out.t)

\* C10 amended: after a pull has returned exhaustion, unread(x), for any token
\* x, followed by a pull returns Ok(x), and a bulk pushback has all its tokens
\* delivered; the pull after them returns what the producer answers to its
\* next call, which is exhaustion again for a producer that stays exhausted.
C10_AfterEnd ==
    /\ C10_Delivered(mark.s_at_end, out.s)
    /\ C10_Delivered(mark.t_at_end, out.t)
    /\ C10_ThenProducer(mark.s_at_end, mark.s0.inner.pos, out.s)
    /\ C10_ThenProducer(mark.t_at_end, mark.t0.iter, out.t)
    /\ StaysExhausted => (C10_ThenNone(mark.s_at_end, out.s)
                          /\ C10_ThenNone(mark.t_at_end, out.t))

\* After exhaustion a token the producer never gave was pushed back, alone or
\* in a bulk of two, re-read, and the pull after returned exhaustion again.
C10_Witness ==
    /\ mark.kind # "none" /\ mark.s_at_end /\ mark.t_at_end
    /\ Len(mark.xs) >= 1 /\ mark.k = Len(mark.xs) + 1
    /\ \A i \in 1..Len(script) : Lift(script[i]) # Ok(mark.xs[1])
    /\ Len(script) >= 1
    /\ StaysExhausted
    /\ out.s = None /\ out.t = None

\* ------------------------------------------------------------------ C12
\* C12: Stream over the producer mapped through the transform and Transformed
\* over the same producer with the same transform are observationally
\* equivalent: after every sequence of next, unread and bulk pushback calls the
\* last call returned the same on both, both have consumed the same number of
\* raw items, and both hold the same tokens in the same delivery order.
C12_Equivalent ==
    /\ out.s = out.t
    /\ s.inner.pos = t.iter
    /\ tally.s.taken = tally.t.taken
    /\ tally.s.calls = tally.t.calls
    /\ probe.s.asked = probe.t.asked
    /\ Stream_delivery(s) = Transformed_delivery(t)

\* The second pull after a bulk pushback of two different tokens onto a
\* non-empty buffer, made after a raw item was consumed: both objects have
\* returned the first of the two.
C12_Witness ==
    /\ mark.kind = "unread_from_chunks"
    /\ Len(mark.xs) = 2
    /\ mark.xs[1] # mark.xs[2]
    /\ mark.s0.backing_store # <<>>
    /\ mark.k = 2
    /\ op.name = "next"
    /\ out.s = Ok(mark.xs[1])
    /\ out.t = Ok(mark.xs[1])
    /\ tally.s.taken >= 1

\* ------------------------------------------------------------------ C13
\* unread(x1), unread(x2), ..., unread(xn) in that order.
RECURSIVE Stream_unread_each(_, _)
Stream_unread_each(self, xs) ==
    IF xs = <<>> THEN self
    ELSE Stream_unread(Stream_unread_each(self, Front(xs)), Last(xs))

RECURSIVE Transformed_unread_each(_, _)
Transformed_unread_each(self, xs) ==
    IF xs = <<>> THEN self
    ELSE Transformed_unread(Transformed_unread_each(self, Front(xs)), Last(xs))

\* The bulk pushback of xs just made left each object as unread of each chunk
\* in turn leaves the object it was called on.
C13_LastCall ==
    op.name = "unread_from_chunks" =>
        /\ s = Stream_unread_each(probe.s.was, op.arg)
        /\ t = Transformed_unread_each(probe.t.was, op.arg)
        /\ n = Stream_unread_each(probe.n.was, op.arg)

\* A bulk pushback of ys made now, after the bulk pushback of xs just made,
\* equals one bulk pushback of xs \o ys in place of the two.
C13_Concat ==
    op.name = "unread_from_chunks" =>
        \A ys \in SeqsUpTo(Chunk, MaxBulk) :
            /\ unread_from_chunks(s, ys)
                  = unread_from_chunks(probe.s.was, op.arg \o ys)
            /\ Transformed_unread_from_tokens(t, ys)
                  = Transformed_unread_from_tokens(probe.t.was, op.arg \o ys)

\* C13: a bulk pushback of xs, made in any reachable state (the action
\* Call_unread_from_chunks makes it in every state, for every xs the buffer
\* has room for), leaves each object in the state (buffer, hence delivery
\* order, and producer position) that unread(x1), ..., unread(xn) leave it in,
\* and a bulk pushback of xs followed by one of ys equals one bulk pushback of
\* xs \o ys.
C13_BulkIsRepeated ==
    /\ C13_LastCall
    /\ C13_Concat
    /\ op.name = "unread_from_chunks" =>
          /\ s.inner = probe.s.was.inner
          /\ t.iter = probe.t.was.iter
          /\ Stream_delivery(s) = Reverse(op.arg) \o Stream_delivery(probe.s.was)
          /\ Transformed_delivery(t) = Reverse(op.arg) \o Transformed_delivery(probe.t.was)

\* A bulk pushback of two different tokens onto a non-empty buffer, after a raw
\* item was consumed.
C13_Witness ==
    /\ op.name = "unread_from_chunks"
    /\ Len(op.arg) = 2
    /\ op.arg[1] # op.arg[2]
    /\ probe.t.was.backing_store # <<>>
    /\ t.iter > 1
    /\ t = Transformed_unread(Transformed_unread(probe.t.was, op.arg[1]), op.arg[2])
    /\ s = Stream_unread(Stream_unread(probe.s.was, op.arg[1]), op.arg[2])

\* ------------------------------------------------------------------ C15
\* What never_error::Iter makes of an answer of the producer.
LiftOk(slot) == IF slot.some THEN Ok(slot.item) ELSE None

\* The last call was a next that found the buffer of the object empty.
C15_Case(p) == op.name = "next" /\ ~p.served

\* That next made one call of the producer, at position pos0, and the producer
\* is now at pos1.
C15_AskedOnce(p, pos0, pos1) ==
    /\ p.asked = (IF Answer(pos0).some THEN "some" ELSE "none")
    /\ pos1 = producer_next(pos0).pos
    /\ p.called = (IF Answer(pos0).some THEN 1 ELSE 0)

\* C15: no end-of-stream flag.  Every next that starts with an empty buffer
\* calls the producer exactly once, whatever the producer answered before, and
\* returns what the producer answered on that call: None, or the item passed
\* through the transform (through Ok for never_error::Iter).
C15_NoEndFlag ==
    /\ C15_Case(probe.s) =>
          /\ C15_AskedOnce(probe.s, probe.s.was.inner.pos, s.inner.pos)
          /\ out.s = Lift(Answer(probe.s.was.inner.pos))
    /\ C15_Case(probe.t) =>
          /\ C15_AskedOnce(probe.t, probe.t.was.iter, t.iter)
          /\ out.t = Lift(Answer(probe.t.was.iter))
    /\ C15_Case(probe.n) =>
          /\ probe.n.asked = (IF Answer(probe.n.was.inner.pos).some THEN "some" ELSE "none")
          /\ n.inner.pos = producer_next(probe.n.was.inner.pos).pos
          /\ out.n = LiftOk(Answer(probe.n.was.inner.pos))

\* The producer answered None to an earlier next and an item to this one: the
\* stream yields the item.
C15_Witness ==
    /\ C15_Case(probe.s)
    /\ C15_Case(probe.t)
    /\ tally.s.was_ended
    /\ tally.t.was_ended
    /\ out.s.tag = "Ok"
    /\ out.t.tag = "Ok"
    /\ probe.t.asked = "some"

\* ------------------------------------------------------------------ C16
\* The buffer holds tokens the caller pushed back, nothing else.
C16_OnlyTokens(self) ==
    \A i \in 1..Len(self.backing_store) : self.backing_store[i] \in Chunk

\* The last call on an object: ret is what it returned, p what it did, and the
\* producer went from pos0 to pos1.
C16_ErrFromProducer(ret, p, pos0, pos1) ==
    /\ (op.name = "next" /\ p.served) => ret.tag = "Ok"
    /\ ret.tag = "Err" =>
          /\ op.name = "next"
          /\ p.was.backing_store = <<>>
          /\ p.asked = "some"
          /\ pos1 = pos0 + 1

\* C16: errors never come from, or enter, the pushback buffer.  The buffer
\* holds only tokens; a next served from the buffer returns Ok; a next returns
\* Err only if it started with an empty buffer and consumed one raw item; and
\* every rejected raw item consumed so far was returned as one Err, so that
\* pushbacks delay a pending error without losing it.
C16_ErrorsBypassBuffer ==
    /\ C16_OnlyTokens(s) /\ C16_OnlyTokens(t) /\ C16_OnlyTokens(n)
    /\ C16_ErrFromProducer(out.s, probe.s, probe.s.was.inner.pos, s.inner.pos)
    /\ C16_ErrFromProducer(out.t, probe.t, probe.t.was.iter, t.iter)
    /\ C16_ErrFromProducer(out.n, probe.n, probe.n.was.inner.pos, n.inner.pos)
    /\ tally.s.errs = Rejected(s.inner.pos - 1)
    /\ tally.t.errs = Rejected(t.iter - 1)

\* The first raw item is one the transform rejects; tokens were pushed back
\* and re-read before it was reached, and this next returns its Err.
C16_Witness ==
    /\ op.name = "next"
    /\ tally.s.pushed
    /\ tally.t.pushed
    /\ probe.s.was.inner.pos = 1
    /\ probe.t.was.iter = 1
    /\ out.s.tag = "Err"
    /\ out.t.tag = "Err"
    /\ tally.t.errs = 1

\* ------------------------------------------------------------------ C11
\* The raw items among the first k answers of the producer.
Items(k) == Cardinality({i \in 1..Min(k, Len(script)) : script[i].some})

\* The last call left the producer where it was and invoked no transform.
C11_Untouched(p, pos0, pos1) ==
    /\ pos1 = pos0
    /\ p.asked = "no"
    /\ p.called = 0

\* The raw items an object has taken: one per item the producer has answered,
\* one transform invocation each, and no more than the pulls that found the
\* buffer empty.
C11_Counts(tl, polls, pos) ==
    /\ tl.taken = Items(pos - 1)
    /\ tl.calls = tl.taken
    /\ tl.taken <= polls

\* C11: laziness.  Construction, unread and the bulk pushback (and a next
\* served from the buffer) take no raw item and invoke no transform; in every
\* reachable state the raw items taken equal the transform invocations and are
\* at most the pulls that started with an empty buffer.
C11_Lazy ==
    /\ op.name \in {"new", "with_backing_store"} =>
          /\ s.inner.pos = 1 /\ t.iter = 1 /\ n.inner.pos = 1
          /\ tally.s.taken = 0 /\ tally.t.taken = 0 /\ tally.n.taken = 0
          /\ tally.s.calls = 0 /\ tally.t.calls = 0
    /\ (op.name \in {"unread", "unread_from_chunks"}
          \/ (op.name = "next" /\ probe.s.served)) =>
          C11_Untouched(probe.s, probe.s.was.inner.pos, s.inner.pos)
    /\ (op.name \in {"unread", "unread_from_chunks"}
          \/ (op.name = "next" /\ probe.t.served)) =>
          C11_Untouched(probe.t, probe.t.was.iter, t.iter)
    /\ (op.name \in {"unread", "unread_from_chunks"}
          \/ (op.name = "next" /\ probe.n.served)) =>
          C11_Untouched(probe.n, probe.n.was.inner.pos, n.inner.pos)
    /\ C11_Counts(tally.s, ledger.s.polls, s.inner.pos)
    /\ C11_Counts(tally.t, ledger.t.polls, t.iter)

\* A pushback made on objects constructed over a seed, after a pull served
\* from the seed, a pull that took a raw item and a pull the producer answered
\* with None.
C11_Witness ==
    /\ op.name \in {"unread", "unread_from_chunks"}
    /\ Len(op.arg) >= 1
    /\ ledger.put # op.arg
    /\ tally.t.taken = 1
    /\ tally.t.calls = 1
    /\ ledger.t.polls = 2
    /\ Len(ledger.t.got) = 2
    /\ t.iter = 3

\* ------------------------------------------------------------------ C14
\* While nothing was pushed back since the construction, ledger.put is the
\* seed and ledger.fresh the number of pulls made.
C14_Pull(k) == op.name = "next" /\ ledger.fresh = k

\* with_backing_store(p, f, seed) is new(p, f) followed by a bulk pushback of
\* seed.
C14_AsNewThenBulk ==
    op.name = "with_backing_store" =>
        /\ t = Transformed_unread_from_tokens(Transformed_new(1), op.arg)
        /\ op.arg = ledger.put

\* The object built over a seed and the object built by new and a bulk
\* pushback cannot be told apart by any calls.
C14_Indistinguishable ==
    /\ out.t = out.s
    /\ t.iter = s.inner.pos
    /\ Transformed_delivery(t) = Stream_delivery(s)

\* C14: seeded construction.  A Transformed built by with_backing_store over
\* seed = [s1, ..., sn] is indistinguishable from new followed by a bulk
\* pushback of seed; its first n pulls return Ok(sn), ..., Ok(s1) without
\* advancing the producer or invoking the transform, and the (n+1)-th pull is
\* the first to ask the producer, for its first raw item.
C14_Seeded ==
    /\ C14_AsNewThenBulk
    /\ C14_Indistinguishable
    /\ \A k \in 1..Len(ledger.put) :
          C14_Pull(k) =>
            /\ out.t = Ok(Replayed(ledger.put, k))
            /\ probe.t.asked = "no"
            /\ probe.t.called = 0
            /\ t.iter = 1
            /\ tally.t.taken = 0
    /\ C14_Pull(Len(ledger.put) + 1) =>
            /\ probe.t.was = Transformed_new(1)
            /\ probe.t.asked = (IF Answer(1).some THEN "some" ELSE "none")
            /\ out.t = Lift(Answer(1))
            /\ t.iter = producer_next(1).pos
            /\ tally.t.taken = (IF Answer(1).some THEN 1 ELSE 0)

\* The third pull on a Transformed built over a seed of two different tokens:
\* the two came back last first, and this pull decoded the first raw item.
C14_Witness ==
    /\ Len(ledger.put) = 2
    /\ ledger.put[1] # ledger.put[2]
    /\ C14_Pull(3)
    /\ probe.t.asked = "some"
    /\ out.t.tag = "Ok"
    /\ ledger.t.got = <<Ok(ledger.put[2]), Ok(ledger.put[1]), out.t>>

\* ------------------------------------------------------------------ C17
\* How often v occurs in q.
Count(q, v) == Cardinality({i \in 1..Len(q) : q[i] = v})

\* The values a stream can return.
Values == {Lift(Item(r)) : r \in Raw} \cup {Ok(x) : x \in Chunk}

\* How often v is due: once per raw item of the producer that lifts to v and
\* once per token v handed to the stream, seed included.
Due(v) ==
    Cardinality({i \in 1..Len(script) : script[i].some /\ Lift(script[i]) = v})
        + Count(ledger.put, v.val) * (IF v.tag = "Ok" THEN 1 ELSE 0)

\* The caller only pulls, and the producer stays exhausted once it is.
C17_Draining == ledger.draining /\ StaysExhausted

\* The stream has returned exhaustion to the draining caller.
C17_Exhausted == op.name = "next" /\ out.s = None /\ out.t = None

\* So far every value returned was a raw item taken or a token popped, and
\* every token handed in was returned or is still in the buffer.
C17_Balance(l, taken, self) ==
    Len(l.got) = taken + Len(ledger.put) - Len(self.backing_store)

\* On exhaustion n + k pulls have returned a value, each raw item and each
\* pushed-back token exactly once.
C17_Exact(l) ==
    /\ Len(l.got) = Items(Len(script)) + Len(ledger.put)
    /\ \A v \in Values : Count(l.got, v) = Due(v)

C17_Count ==
    /\ C17_Balance(ledger.s, tally.s.taken, s)
    /\ C17_Balance(ledger.t, tally.t.taken, t)
    /\ (C17_Draining /\ C17_Exhausted) =>
          /\ C17_Exact(ledger.s)
          /\ C17_Exact(ledger.t)
          /\ s.backing_store = <<>>
          /\ t.backing_store = <<>>

\* C17: draining terminates with nothing lost or duplicated.  For a producer
\* that yields n raw items and then stays exhausted and a caller that has
\* handed in k tokens (seed included) and then only pulls, the stream
\* eventually returns exhaustion, and by then exactly n + k pulls have returned
\* a value: every raw item once, every pushed-back token once.
C17_DrainTerminates ==
    /\ []C17_Count
    /\ (C17_Draining ~> C17_Exhausted)

\* A drain that ended: two raw items, two tokens handed in, four values
\* returned, then None.
C17_Witness ==
    /\ C17_Draining
    /\ C17_Exhausted
    /\ Items(Len(script)) = 2
    /\ Len(ledger.put) = 2
    /\ Len(ledger.t.got) = 4
    /\ Len(ledger.s.got) = 4

====
